---- MODULE Spec2Model ----
(***************************************************************************)
(* A model of nlp-search: the Search object of nlp/search/search.py (its   *)
(* chunk grammars, its extractors and format_date), the airport resolver   *)
(* of nlp/search/airports.py and the connection worker of                  *)
(* nlp/server/server.py.                                                   *)
(*                                                                         *)
(* A Python str is a sequence of one-character strings, so that split,     *)
(* strip, title, upper, slicing and the regular expressions of the code    *)
(* are computed character by character.  None is the one-element sequence  *)
(* <<"None">>, whose element is no character, an int n is <<"int", n>> and *)
(* a bool b is <<"bool", b>>, so that any two Python values can be         *)
(* compared.                                                               *)
(***************************************************************************)
EXTENDS Integers, Sequences, FiniteSets, TLC

VARIABLES
    words,              \* word_tokenize's output for the raw query (clean, line 56)
    tagged_words,       \* Search.tagged_words
    origin_city,        \* Search.origin_city
    destination_city,   \* Search.destination_city
    departure_date,     \* Search.departure_date
    return_date,        \* Search.return_date
    origin_text,        \* get_origin_and_destination's local origin_city before line 153
    destination_text,   \* its local destination_city before line 154
    departure_fragment, \* get_dates' local departure_date before line 211
    return_fragment,    \* get_dates' local return_date before line 212
    flexible,           \* the value is_flexible returned
    output,             \* the record to_json serialises
    error,              \* the exception that ended the call, or "none"
    pc,                 \* where the caller of the Search object stands
    now,                \* the clock dt.datetime.now() reads
    directory,          \* the answers of the iatacodes.org directory
    date,               \* format_date's argument
    formatted,          \* format_date's month, day, year and returned string
    location,           \* get_airport_code's argument
    airport_code,       \* get_airport_code's result
    autocomplete_calls, \* requests sent to the autocomplete endpoint
    conns               \* the connections of the server, one worker thread each

vars == <<words, tagged_words, origin_city, destination_city, departure_date,
          return_date, origin_text, destination_text, departure_fragment,
          return_fragment, flexible, output, error, pc, now, directory, date,
          formatted, location, airport_code, autocomplete_calls, conns>>

None == <<"None">>

PyInt(n) == <<"int", n>>

PyBool(b) == <<"bool", b>>

(***************************************************************************)
(* Characters and the str methods the code calls.                          *)
(***************************************************************************)
LowerChars == <<"a","b","c","d","e","f","g","h","i","j","k","l","m",
                "n","o","p","q","r","s","t","u","v","w","x","y","z">>

UpperChars == <<"A","B","C","D","E","F","G","H","I","J","K","L","M",
                "N","O","P","Q","R","S","T","U","V","W","X","Y","Z">>

Digits == {"0","1","2","3","4","5","6","7","8","9"}

Range(s) == {s[i] : i \in DOMAIN s}

LowerSet == Range(LowerChars)

UpperSet == Range(UpperChars)

Letters == LowerSet \cup UpperSet

IsLower(c) == c \in LowerSet

IsUpper(c) == c \in UpperSet

Index(c, s) == CHOOSE i \in DOMAIN s : s[i] = c

ToUpper(c) == IF IsLower(c) THEN UpperChars[Index(c, LowerChars)] ELSE c

ToLower(c) == IF IsUpper(c) THEN LowerChars[Index(c, UpperChars)] ELSE c

\* str.upper()
Upper(s) == [i \in DOMAIN s |-> ToUpper(s[i])]

\* str.lower()
Lower(s) == [i \in DOMAIN s |-> ToLower(s[i])]

\* str.title(): a letter that follows a letter is lower-cased, every other
\* letter is upper-cased ("2nd" becomes "2Nd").
Title(s) ==
    [i \in DOMAIN s |->
        IF i > 1 /\ s[i - 1] \in Letters THEN ToLower(s[i]) ELSE ToUpper(s[i])]

\* s[a:b] of Python for 0 <= a, with b already resolved to an index.
Slice(s, a, b) == IF b <= a THEN <<>> ELSE SubSeq(s, a + 1, IF b > Len(s) THEN Len(s) ELSE b)

RECURSIVE LStrip(_)
LStrip(s) == IF s # <<>> /\ Head(s) = " " THEN LStrip(Tail(s)) ELSE s

RECURSIVE RStrip(_)
RStrip(s) ==
    IF s # <<>> /\ s[Len(s)] = " " THEN RStrip(SubSeq(s, 1, Len(s) - 1)) ELSE s

\* str.strip()
Strip(s) == LStrip(RStrip(s))

\* str.split(): the maximal runs of non-blank characters, in order.
RECURSIVE SplitFrom(_, _, _)
SplitFrom(s, i, cur) ==
    IF i > Len(s) THEN (IF cur = <<>> THEN <<>> ELSE <<cur>>)
    ELSE IF s[i] = " "
         THEN (IF cur = <<>> THEN <<>> ELSE <<cur>>) \o SplitFrom(s, i + 1, <<>>)
         ELSE SplitFrom(s, i + 1, Append(cur, s[i]))

Split(s) == SplitFrom(s, 1, <<>>)

(***************************************************************************)
(* Tag patterns.  A tag is spelled as in the Penn Treebank tag set; nltk   *)
(* turns a tag pattern <...> into a regular expression over the tag's      *)
(* spelling, in which "." is any character and "?" makes the character     *)
(* before it optional.                                                     *)
(***************************************************************************)
PennTags == {"NNP", "NNPS", "NN", "NNS", "TO", "CD", "CC", "IN", "VB"}

Spelling(t) ==
    CASE t = "NNP"  -> <<"N","N","P">>
      [] t = "NNPS" -> <<"N","N","P","S">>
      [] t = "NN"   -> <<"N","N">>
      [] t = "NNS"  -> <<"N","N","S">>
      [] t = "TO"   -> <<"T","O">>
      [] t = "CD"   -> <<"C","D">>
      [] t = "CC"   -> <<"C","C">>
      [] t = "IN"   -> <<"I","N">>
      [] t = "VB"   -> <<"V","B">>

Ch(c) == [c |-> c, opt |-> FALSE]

Opt(c) == [c |-> c, opt |-> TRUE]

\* Whether the whole spelling s matches the pattern p.
RECURSIVE ReMatch(_, _)
ReMatch(p, s) ==
    IF p = <<>> THEN s = <<>>
    ELSE \/ Head(p).opt /\ ReMatch(Tail(p), s)
         \/ /\ s # <<>>
            /\ Head(p).c \in {".", Head(s)}
            /\ ReMatch(Tail(p), Tail(s))

TagsMatching(p) == {t \in PennTags : ReMatch(p, Spelling(t))}

\* <NNP.?>
PatNNPx == TagsMatching(<<Ch("N"), Ch("N"), Ch("P"), Opt(".")>>)

\* <NNP?>
PatNNPopt == TagsMatching(<<Ch("N"), Ch("N"), Opt("P")>>)

\* <TO>
PatTO == TagsMatching(<<Ch("T"), Ch("O")>>)

\* <CD>
PatCD == TagsMatching(<<Ch("C"), Ch("D")>>)

\* <CD.?>
PatCDx == TagsMatching(<<Ch("C"), Ch("D"), Opt(".")>>)

\* <CC>
PatCC == TagsMatching(<<Ch("C"), Ch("C")>>)

(***************************************************************************)
(* nltk.RegexpParser with one chunk rule.  A rule is a sequence of         *)
(* elements, each a set of tags with a least count and "many" for + and *. *)
(* The rule's regular expression is matched as re.sub matches it: at the   *)
(* leftmost position where it can match, every element taking as many      *)
(* tags as it can and giving them back only when the rest cannot match;    *)
(* the search resumes after the match.                                     *)
(***************************************************************************)
One(S) == [tags |-> S, min |-> 1, many |-> FALSE]

Plus(S) == [tags |-> S, min |-> 1, many |-> TRUE]

Star(S) == [tags |-> S, min |-> 0, many |-> TRUE]

Word(tok) == tok[1]

Tag(tok) == tok[2]

\* How many tokens from position i on carry a tag of S.
RECURSIVE RunLen(_, _, _)
RunLen(toks, i, S) ==
    IF i <= Len(toks) /\ Tag(toks[i]) \in S THEN 1 + RunLen(toks, i + 1, S) ELSE 0

\* The position of the last token of the match that starts at i, or -1.
RECURSIVE MatchFrom(_, _, _)
RECURSIVE MatchTaking(_, _, _, _)
MatchFrom(rule, toks, i) ==
    IF rule = <<>> THEN i - 1
    ELSE LET r == RunLen(toks, i, Head(rule).tags)
         IN  MatchTaking(rule, toks, i,
                         IF Head(rule).many \/ r = 0 THEN r ELSE 1)

MatchTaking(rule, toks, i, k) ==
    IF k < Head(rule).min THEN -1
    ELSE LET end == MatchFrom(Tail(rule), toks, i + k)
         IN  IF end # -1 THEN end ELSE MatchTaking(rule, toks, i, k - 1)

Leaf(tok) == [kind |-> "leaf", tok |-> tok]

Tree(label, children) == [kind |-> "tree", label |-> label, children |-> children]

\* The children of the tree RegexpParser.parse returns, from position i on.
RECURSIVE ParseFrom(_, _, _, _)
ParseFrom(label, rule, toks, i) ==
    IF i > Len(toks) THEN <<>>
    ELSE LET end == MatchFrom(rule, toks, i)
         IN  IF end >= i
             THEN <<Tree(label, [j \in 1..(end - i + 1) |-> Leaf(toks[i + j - 1])])>>
                  \o ParseFrom(label, rule, toks, end + 1)
             ELSE <<Leaf(toks[i])>> \o ParseFrom(label, rule, toks, i + 1)

Parse(label, rule, toks) == ParseFrom(label, rule, toks, 1)

WordsOfNodes(children) == [j \in DOMAIN children |-> Word(children[j].tok)]

\* The tokens under a tree's children that are leaves.
Leaves(children) == [j \in DOMAIN children |-> children[j].tok]

\* r"Origin/Destination: {<NNP.?>+<TO><NNP?>*}"
OriginDestinationGrams == <<Plus(PatNNPx), One(PatTO), Star(PatNNPopt)>>

\* r"Origin: {<NNP.?>+<TO>}"
OriginGrams == <<Plus(PatNNPx), One(PatTO)>>

\* r"Departure/Return: {<NNP.?>*<CD>+<TO>*<NNP.?>*<CD>*}"
DepartureReturnGrams ==
    <<Star(PatNNPx), Plus(PatCD), Star(PatTO), Star(PatNNPx), Star(PatCD)>>

\* r"Flexible: {<CD.?>+<CC><CD.?>}"
FlexibleGrams == <<Plus(PatCDx), One(PatCC), One(PatCDx)>>

(***************************************************************************)
(* nlp/search/airports.py.  The directory answers an exact lookup of a     *)
(* text with a list that is empty or not (known), and an autocomplete      *)
(* query with two lists of airports (country, city), each airport a        *)
(* record with a code.                                                     *)
(***************************************************************************)
Answer(list, q) == IF q \in DOMAIN list THEN list[q] ELSE <<>>

is_airport_code(loc, dir) == Strip(loc) \in dir.known

\* get_airport_code preferring the city-level match to the country-level one.
get_airport_code_city_first(loc, dir) ==
    LET stripped == Strip(loc)
        country_airports == Answer(dir.country, stripped)
        city_airports == Answer(dir.city, stripped)
    IN  IF is_airport_code(stripped, dir)
        THEN [code |-> Upper(stripped), calls |-> 0]
        ELSE [code |-> IF Len(city_airports) > 0 THEN city_airports[1].code
                       ELSE IF Len(country_airports) > 0 THEN country_airports[1].code
                       ELSE None,
              calls |-> 1]

\* The code returned and the autocomplete requests made.
get_airport_code(loc, dir) ==
    LET stripped == Strip(loc)
        country_airports == Answer(dir.country, stripped)
        city_airports == Answer(dir.city, stripped)
    IN  IF is_airport_code(stripped, dir)
        THEN [code |-> Upper(stripped), calls |-> 0]
        ELSE [code |-> IF Len(country_airports) > 0 THEN country_airports[1].code
                       ELSE IF Len(city_airports) > 0 THEN city_airports[1].code
                       ELSE None,
              calls |-> 1]

(***************************************************************************)
(* format_date and the strptime / timestamp conversion of get_dates.       *)
(***************************************************************************)
MonthAbbr ==
    << <<"J","a","n">>, <<"F","e","b">>, <<"M","a","r">>, <<"A","p","r">>,
       <<"M","a","y">>, <<"J","u","n">>, <<"J","u","l">>, <<"A","u","g">>,
       <<"S","e","p">>, <<"O","c","t">>, <<"N","o","v">>, <<"D","e","c">> >>

LowerMonthAbbr == [m \in 1..12 |-> Lower(MonthAbbr[m])]

DigitChars == <<"0","1","2","3","4","5","6","7","8","9">>

DigitVal(c) == Index(c, DigitChars) - 1

RECURSIVE Num(_)
Num(s) == IF s = <<>> THEN 0 ELSE 10 * Num(SubSeq(s, 1, Len(s) - 1)) + DigitVal(s[Len(s)])

AllIn(s, S) == \A i \in DOMAIN s : s[i] \in S

\* r'^\b[A-Za-z]+$'
IsMonthWord(word) == Len(word) > 0 /\ AllIn(word, Letters)

\* The characters of the class [st|St|nd|Nd|rd|Rd|th|Th].
SuffixClass == {"s", "t", "|", "S", "n", "d", "N", "r", "R", "h", "T"}

\* r'^\d{1,2}[st|St|nd|Nd|rd|Rd|th|Th]*$'
IsDayWord(word) ==
    \E k \in 1..2 :
        /\ k <= Len(word)
        /\ AllIn(SubSeq(word, 1, k), Digits)
        /\ AllIn(SubSeq(word, k + 1, Len(word)), SuffixClass)

\* r'^\d{4}$'
IsYearWord(word) == Len(word) = 4 /\ AllIn(word, Digits)

\* The loop of lines 272-289 from word i on, with the roles found so far.
RECURSIVE ClassifyFrom(_, _, _)
ClassifyFrom(ws, i, found) ==
    IF i > Len(ws) THEN found
    ELSE LET word == ws[i]
             m == IF IsMonthWord(word)
                  THEN (IF Len(word) > 3 THEN Title(Slice(word, 0, 3)) ELSE Title(word))
                  ELSE found.month
             d == IF IsDayWord(word)
                  THEN (IF Len(word) > 2 THEN Slice(word, 0, Len(word) - 2) ELSE word)
                  ELSE found.day
             y == IF IsYearWord(word) THEN word ELSE found.year
         IN  ClassifyFrom(ws, i + 1, [month |-> m, day |-> d, year |-> y])

TwoDigits(n) == <<DigitChars[(n \div 10) + 1], DigitChars[(n % 10) + 1]>>

FourDigits(n) == TwoDigits(n \div 100) \o TwoDigits(n % 100)

\* The roles as the fragment gives them, before the defaults.
Classify(fragment) ==
    ClassifyFrom(Split(fragment), 1, [month |-> None, day |-> None, year |-> None])

\* format_date with the day defaulting to the first of the month.
format_date_first_of_month(fragment, clock) ==
    LET found == Classify(fragment)
        month == IF found.month = None THEN MonthAbbr[clock.month] ELSE found.month
        day == IF found.day = None THEN <<"1">> ELSE found.day
        year == IF found.year = None THEN FourDigits(clock.year) ELSE found.year
    IN  [month |-> month, day |-> day, year |-> year,
         text |-> month \o <<" ">> \o day \o <<" ">> \o year]

\* The month, day and year after the defaults, and the string returned.
format_date(fragment, clock) ==
    LET found == Classify(fragment)
        month == IF found.month = None THEN MonthAbbr[clock.month] ELSE found.month
        day == IF found.day = None THEN TwoDigits(clock.day) ELSE found.day
        year == IF found.year = None THEN FourDigits(clock.year) ELSE found.year
    IN  [month |-> month, day |-> day, year |-> year,
         text |-> month \o <<" ">> \o day \o <<" ">> \o year]

IsLeap(y) == (y % 4 = 0 /\ y % 100 # 0) \/ y % 400 = 0

DaysInMonth(y, m) ==
    IF m = 2 THEN (IF IsLeap(y) THEN 29 ELSE 28)
    ELSE IF m \in {4, 6, 9, 11} THEN 30 ELSE 31

\* dt.datetime.strptime(text, "%b %d %Y"): the date, or ok = FALSE where
\* strptime raises ValueError.
Strptime(text) ==
    LET parts == Split(text)
        months == {m \in 1..12 : LowerMonthAbbr[m] = Lower(parts[1])}
        m == CHOOSE m \in months : TRUE
        d == Num(parts[2])
        y == Num(parts[3])
    IN  IF /\ Len(parts) = 3
           /\ months # {}
           /\ Len(parts[2]) \in 1..2 /\ AllIn(parts[2], Digits)
           /\ Len(parts[3]) = 4 /\ AllIn(parts[3], Digits)
           /\ y >= 1
           /\ d \in 1..DaysInMonth(y, m)
        THEN [ok |-> TRUE, year |-> y, month |-> m, day |-> d]
        ELSE [ok |-> FALSE]

LeapsBefore(y) == ((y - 1) \div 4) - ((y - 1) \div 100) + ((y - 1) \div 400)

RECURSIVE DaysBeforeMonth(_, _)
DaysBeforeMonth(y, m) ==
    IF m = 1 THEN 0 ELSE DaysBeforeMonth(y, m - 1) + DaysInMonth(y, m - 1)

\* int(datetime.timestamp() * 1e3) of midnight of the date, the process
\* running in UTC.  timestamp() is a whole number of seconds here; the int is
\* held without the three zeros that * 1e3 appends, to stay within 32 bits.
TimestampMs(t) ==
    PyInt((365 * (t.year - 1970) + LeapsBefore(t.year) - LeapsBefore(1970)
        + DaysBeforeMonth(t.year, t.month) + t.day - 1) * 86400)

(***************************************************************************)
(* The Search object of nlp/search/search.py.                              *)
(***************************************************************************)
\* The words of nltk's English stop word list that the modelled queries use.
stop_words == { <<"t","o">>, <<"o","r">>, <<"o","n">>, <<"f","r","o","m">> }

\* clean: every word that is no stop word is title-cased; pos_tag then
\* pairs each word with the tag the tagger gives it.
clean(ws, tags) ==
    [i \in DOMAIN ws |->
        <<IF ws[i] \notin stop_words THEN Title(ws[i]) ELSE ws[i], tags[i]>>]

\* A local variable no assignment has reached.
Unbound == <<"unbound">>

LabelIs(subtree, label) == subtree.kind = "tree" /\ subtree.label = label

\* word + " " for every word, concatenated.
RECURSIVE JoinEach(_)
JoinEach(ws) == IF ws = <<>> THEN <<>> ELSE Head(ws) \o <<" ">> \o JoinEach(Tail(ws))

\* OriginDestinationOf with the origin running through the direction marker.
OriginDestinationWithMarker(subtree) ==
    LET nested_subtree == Parse("Origin", OriginGrams, Leaves(subtree.children))
        first == nested_subtree[1]
    IN  [origin |-> JoinEach(WordsOfNodes(first.children)),
         destination |->
            JoinEach([j \in 1..(Len(nested_subtree) - 1) |->
                Word(nested_subtree[j + 1].tok)])]

\* Lines 136-148 for one Origin/Destination subtree.
OriginDestinationOf(subtree) ==
    LET nested_subtree == Parse("Origin", OriginGrams, Leaves(subtree.children))
        first == nested_subtree[1]
        n == IF first.kind = "tree" THEN Len(first.children) ELSE 2
    IN  [origin |->
            JoinEach([i \in 1..(n - 1) |->
                IF first.kind = "tree" THEN Word(first.children[i].tok)
                ELSE <<Word(first.tok)[1]>>]),
         destination |->
            JoinEach([j \in 1..(Len(nested_subtree) - 1) |->
                Word(nested_subtree[j + 1].tok)])]

\* The loop of lines 131-150 from child i on; a leaf has no label() and is
\* skipped (AttributeError).
RECURSIVE OriginDestinationLoop(_, _, _)
OriginDestinationLoop(parsed_tree, i, acc) ==
    IF i > Len(parsed_tree) THEN acc
    ELSE OriginDestinationLoop(parsed_tree, i + 1,
            IF LabelIs(parsed_tree[i], "Origin/Destination")
            THEN OriginDestinationOf(parsed_tree[i])
            ELSE acc)

\* The locals origin_city and destination_city when line 153 is reached.
OriginDestinationTexts(tagged) ==
    OriginDestinationLoop(Parse("Origin/Destination", OriginDestinationGrams, tagged),
                          1, [origin |-> Unbound, destination |-> Unbound])

\* Lines 202-206 for one Departure/Return subtree: subtree[1], subtree[3]
\* and subtree[4] raise IndexError on a subtree that is too short.
DatesOf(subtree) ==
    LET n == Len(subtree.children)
        text(k) == Word(subtree.children[k + 1].tok)
    IN  IF n < 2 THEN [error |-> "IndexError"]
        ELSE IF n < 3
             THEN [error |-> "none",
                   departure |-> text(0) \o <<" ">> \o text(1), return |-> None]
        ELSE IF n < 5 THEN [error |-> "IndexError"]
        ELSE [error |-> "none",
              departure |-> text(0) \o <<" ">> \o text(1),
              return |-> text(3) \o <<" ">> \o text(4)]

\* DatesLoop stopping at the first Departure/Return subtree.
RECURSIVE DatesLoopFirstWins(_, _, _)
DatesLoopFirstWins(parsed_tree, i, acc) ==
    IF i > Len(parsed_tree) \/ acc.error # "none" THEN acc
    ELSE IF LabelIs(parsed_tree[i], "Departure/Return") THEN DatesOf(parsed_tree[i])
    ELSE DatesLoopFirstWins(parsed_tree, i + 1, acc)

\* The loop of lines 196-208 from child i on.
RECURSIVE DatesLoop(_, _, _)
DatesLoop(parsed_tree, i, acc) ==
    IF i > Len(parsed_tree) \/ acc.error # "none" THEN acc
    ELSE DatesLoop(parsed_tree, i + 1,
            IF LabelIs(parsed_tree[i], "Departure/Return")
            THEN DatesOf(parsed_tree[i])
            ELSE acc)

\* The locals departure_date and return_date when line 211 is reached, or
\* the exception the loop raised.
DateFragments(tagged) ==
    DatesLoop(Parse("Departure/Return", DepartureReturnGrams, tagged), 1,
              [error |-> "none", departure |-> Unbound, return |-> Unbound])

\* Lines 211-215: the timestamps, or the exception raised.
DateStamps(frags, clock) ==
    IF frags.error # "none" THEN [error |-> frags.error]
    ELSE IF frags.departure = Unbound THEN [error |-> "UnboundLocalError"]
    ELSE LET dep == Strptime(format_date(frags.departure, clock).text)
         IN  IF ~dep.ok THEN [error |-> "ValueError"]
             ELSE IF frags.return = None
                  THEN [error |-> "none", departure |-> TimestampMs(dep), return |-> None]
             ELSE LET ret == Strptime(format_date(frags.return, clock).text)
                  IN  IF ~ret.ok THEN [error |-> "ValueError"]
                      ELSE [error |-> "none", departure |-> TimestampMs(dep),
                            return |-> TimestampMs(ret)]

Flexible == <<"F","l","e","x","i","b","l","e">>

\* HasFlexibleKeyword looking for the lower-case keyword only.
HasLowercaseKeyword(tok) ==
    \/ Word(tok) = Lower(Flexible)
    \/ Spelling(Tag(tok)) = Lower(Flexible)

\* ("Flexible" in word) or ("flexible" in word), word a (text, tag) pair.
HasFlexibleKeyword(tok) ==
    \/ Word(tok) \in {Flexible, Lower(Flexible)}
    \/ Spelling(Tag(tok)) \in {Flexible, Lower(Flexible)}

is_flexible(tagged) ==
    \/ \E i \in DOMAIN tagged : HasFlexibleKeyword(tagged[i])
    \/ LET parsed_tree == Parse("Flexible", FlexibleGrams, tagged)
       IN  \E i \in DOMAIN parsed_tree : LabelIs(parsed_tree[i], "Flexible")

(***************************************************************************)
(* The queries, clocks and directories the model is explored over.  A      *)
(* query is what the tokenizer and the tagger (both outside the            *)
(* repository) make of the raw text: a sequence of (word, tag) pairs.      *)
(***************************************************************************)
\* The longest query given to Search(raw).
MaxLen == 4

\* The longest query given to the span extractors called on their own.
MaxSpanLen == 8

\* The longest query given to get_dates called on its own.
MaxDateLen == 6

\* The longest query given to is_flexible called on its own.
MaxFlexLen == 4

QueryVocab ==
    { << <<"n","y">>, "NNP" >>,
      << <<"k","e","y","s">>, "NNPS" >>,
      << <<"c","i","t","y">>, "NN" >>,
      << <<"t","o">>, "TO" >>,
      << <<"o","c","t">>, "NNP" >>,
      << <<"2","n","d">>, "CD" >>,
      << <<"f","r","o","m">>, "IN" >> }

SpanVocab ==
    { << <<"o","c","t">>, "NNP" >>,
      << <<"2","n","d">>, "CD" >>,
      << <<"t","o">>, "TO" >> }

DateVocab ==
    { << <<"f","e","b">>, "NNP" >>,
      << <<"p","a","r","i","s">>, "NNP" >>,
      << <<"2","n","d">>, "CD" >>,
      << <<"3","0">>, "CD" >>,
      << <<"t","o">>, "TO" >> }

FlexVocab ==
    { << <<"f","l","e","x","i","b","l","e">>, "NN" >>,
      << <<"F","L","E","X","I","B","L","E">>, "NNP" >>,
      << <<"f","l","e","x">>, "NN" >>,
      << <<"o","c","t">>, "NNP" >>,
      << <<"8">>, "CD" >>,
      << <<"o","r">>, "CC" >>,
      << <<"t","o">>, "TO" >> }

Clocks == { [year |-> 2017, month |-> 10, day |-> 31],
            [year |-> 2017, month |-> 2, day |-> 5] }

Airport(code) == [code |-> code]

JFK == <<"J","F","K">>

NoAnswers == [q \in {} |-> <<>>]

Directories ==
    { [known |-> {}, country |-> NoAnswers, city |-> NoAnswers],
      [known |-> { <<"O","c","t">> },
       country |-> [q \in { <<"N","y">> } |-> <<Airport(JFK)>>],
       city |-> NoAnswers] }

Queries(vocab, n) == UNION {[1..k -> vocab] : k \in 0..n}

\* The variables of format_date, get_airport_code and the server, while a
\* Search object is explored.
SearchOnly ==
    /\ date = None
    /\ formatted = None
    /\ location = None
    /\ airport_code = None
    /\ conns = <<>>

\* A Search object after line 34, about to run `entry`.
InitQuery(vocab, n, entries, clocks, dirs) ==
    /\ \E q \in Queries(vocab, n) :
          /\ words = [i \in DOMAIN q |-> q[i][1]]
          /\ tagged_words = clean([i \in DOMAIN q |-> q[i][1]], [i \in DOMAIN q |-> q[i][2]])
    /\ origin_city = None
    /\ destination_city = None
    /\ departure_date = None
    /\ return_date = None
    /\ origin_text = Unbound
    /\ destination_text = Unbound
    /\ departure_fragment = Unbound
    /\ return_fragment = Unbound
    /\ flexible = None
    /\ output = None
    /\ error = "none"
    /\ pc \in entries
    /\ now \in clocks
    /\ directory \in dirs
    /\ autocomplete_calls = 0
    /\ SearchOnly

\* Lines 35 and 106-156.
GetOriginAndDestination ==
    /\ pc \in {"get_origin_and_destination", "call get_origin_and_destination"}
    /\ \E texts \in {OriginDestinationTexts(tagged_words)} :
       \E o \in {get_airport_code(texts.origin, directory)} :
       \E d \in {get_airport_code(texts.destination, directory)} :
           IF texts.origin = Unbound
           THEN /\ error' = "UnboundLocalError"
                /\ pc' = "raised"
                /\ UNCHANGED <<origin_text, destination_text, origin_city,
                               destination_city, autocomplete_calls>>
           ELSE /\ origin_text' = texts.origin
                /\ destination_text' = texts.destination
                /\ origin_city' = o.code
                /\ destination_city' = d.code
                /\ autocomplete_calls' = autocomplete_calls + o.calls + d.calls
                /\ pc' = IF pc = "get_origin_and_destination" THEN "get_dates"
                         ELSE "returned"
                /\ error' = error
    /\ UNCHANGED <<words, tagged_words, departure_date, return_date,
                   departure_fragment, return_fragment, flexible, output, now,
                   directory, date, formatted, location, airport_code, conns>>

\* Lines 36 and 159-215.
GetDates ==
    /\ pc \in {"get_dates", "call get_dates"}
    /\ \E frags \in {DateFragments(tagged_words)} :
       \E stamps \in {DateStamps(frags, now)} :
           /\ IF frags.error = "none" /\ frags.departure # Unbound
              THEN /\ departure_fragment' = frags.departure
                   /\ return_fragment' = frags.return
              ELSE UNCHANGED <<departure_fragment, return_fragment>>
           /\ IF stamps.error = "none"
              THEN /\ departure_date' = stamps.departure
                   /\ return_date' = stamps.return
                   /\ pc' = IF pc = "get_dates" THEN "constructed" ELSE "returned"
                   /\ error' = error
              ELSE /\ error' = stamps.error
                   /\ pc' = "raised"
                   /\ UNCHANGED <<departure_date, return_date>>
    /\ UNCHANGED <<words, tagged_words, origin_city, destination_city,
                   origin_text, destination_text, flexible, output, now,
                   directory, date, formatted, location, airport_code,
                   autocomplete_calls, conns>>

\* Lines 74-103, called on a constructed object.
IsFlexible ==
    /\ pc \in {"constructed", "serialised", "call is_flexible"}
    /\ flexible' = PyBool(is_flexible(tagged_words))
    /\ pc' = IF pc = "call is_flexible" THEN "returned" ELSE pc
    /\ UNCHANGED <<words, tagged_words, origin_city, destination_city,
                   departure_date, return_date, origin_text, destination_text,
                   departure_fragment, return_fragment, output, error, now,
                   directory, date, formatted, location, airport_code,
                   autocomplete_calls, conns>>

\* Lines 218-237, called on a constructed object.
ToJson ==
    /\ pc = "constructed"
    /\ pc' = "serialised"
    /\ output' = [request |-> words,
                  response |-> [origin |-> origin_city,
                                destination |-> destination_city,
                                departure |-> departure_date,
                                return |-> return_date]]
    /\ UNCHANGED <<words, tagged_words, origin_city, destination_city,
                   departure_date, return_date, origin_text, destination_text,
                   departure_fragment, return_fragment, flexible, error, now,
                   directory, date, formatted, location, airport_code,
                   autocomplete_calls, conns>>

\* Search(raw), then to_json and is_flexible on the object.
Init ==
    InitQuery(QueryVocab, MaxLen, {"get_origin_and_destination"},
              {[year |-> 2017, month |-> 10, day |-> 31]}, Directories)

Next == GetOriginAndDestination \/ GetDates \/ IsFlexible \/ ToJson

Spec == Init /\ [][Next]_vars

\* get_origin_and_destination and get_dates, each called on its own.
InitSpans ==
    InitQuery(SpanVocab, MaxSpanLen,
              {"call get_origin_and_destination", "call get_dates"},
              {[year |-> 2017, month |-> 10, day |-> 31]},
              {[known |-> {}, country |-> NoAnswers, city |-> NoAnswers]})

NextSpans == GetOriginAndDestination \/ GetDates

SpecSpans == InitSpans /\ [][NextSpans]_vars

\* get_dates called on its own, over fragments that may not parse.
InitDates ==
    InitQuery(DateVocab, MaxDateLen, {"call get_dates"}, Clocks,
              {[known |-> {}, country |-> NoAnswers, city |-> NoAnswers]})

NextDates == GetDates

SpecDates == InitDates /\ [][NextDates]_vars

\* is_flexible called on its own.
InitFlexible ==
    InitQuery(FlexVocab, MaxFlexLen, {"call is_flexible"},
              {[year |-> 2017, month |-> 10, day |-> 31]},
              {[known |-> {}, country |-> NoAnswers, city |-> NoAnswers]})

NextFlexible == IsFlexible

SpecFlexible == InitFlexible /\ [][NextFlexible]_vars

(***************************************************************************)
(* format_date called on its own.                                          *)
(***************************************************************************)
\* The most words of a fragment given to format_date.
MaxFragWords == 3

FragTokens ==
    { <<"d","e","c","e","m","b","e","r">>,
      <<"O","c","t">>,
      <<"2","n","d">>,
      <<"1","5","T","h">>,
      <<"2","N","D">>,
      <<"5">>,
      <<"1","2","t">>,
      <<"5","t">>,
      <<"2","0","2","0">> }

\* " ".join(ws)
RECURSIVE JoinWords(_)
JoinWords(ws) ==
    IF ws = <<>> THEN <<>>
    ELSE IF Len(ws) = 1 THEN ws[1]
    ELSE ws[1] \o <<" ">> \o JoinWords(Tail(ws))

Fragments == {JoinWords(ws) : ws \in Queries(FragTokens, MaxFragWords)}

\* The variables of the Search object while another function is explored.
NoSearch ==
    /\ words = <<>>
    /\ tagged_words = <<>>
    /\ origin_city = None
    /\ destination_city = None
    /\ departure_date = None
    /\ return_date = None
    /\ origin_text = Unbound
    /\ destination_text = Unbound
    /\ departure_fragment = Unbound
    /\ return_fragment = Unbound
    /\ flexible = None
    /\ output = None
    /\ error = "none"

InitFormat ==
    /\ date \in Fragments
    /\ now \in Clocks
    /\ formatted = None
    /\ pc = "call format_date"
    /\ directory = [known |-> {}, country |-> NoAnswers, city |-> NoAnswers]
    /\ location = None
    /\ airport_code = None
    /\ autocomplete_calls = 0
    /\ conns = <<>>
    /\ NoSearch

\* Lines 240-300.
FormatDate ==
    /\ pc = "call format_date"
    /\ formatted' = format_date(date, now)
    /\ pc' = "returned"
    /\ UNCHANGED <<words, tagged_words, origin_city, destination_city,
                   departure_date, return_date, origin_text, destination_text,
                   departure_fragment, return_fragment, flexible, output, error,
                   now, directory, date, location, airport_code,
                   autocomplete_calls, conns>>

NextFormat == FormatDate

SpecFormat == InitFormat /\ [][NextFormat]_vars

(***************************************************************************)
(* get_airport_code called on its own, over the directory's answers.       *)
(***************************************************************************)
\* The most airports in one list of an autocomplete answer.
MaxAirports == 2

Locations ==
    { <<"j","f","k">>, <<" ","j","f","k"," ">>, <<"N","y">>, <<"N","y"," ">>, <<>> }

CountryAirports ==
    <<Airport(JFK), Airport(<<"L","G","A">>), Airport(<<"E","W","R">>),
      Airport(<<"B","U","F">>)>>

CityAirports ==
    <<Airport(<<"N","Y","C">>), Airport(<<"A","L","B">>), Airport(<<"S","Y","R">>),
      Airport(<<"R","O","C">>)>>

Prefixes(list, n) == {SubSeq(list, 1, k) : k \in 0..n}

InitAirports ==
    /\ location \in Locations
    /\ \E known \in SUBSET { <<"j","f","k">>, <<"N","y">> } :
       \E q \in {Strip(location)} :
       \E country \in Prefixes(CountryAirports, MaxAirports) :
       \E city \in Prefixes(CityAirports, MaxAirports) :
           directory = [known |-> known,
                        country |-> [x \in {q} |-> country],
                        city |-> [x \in {q} |-> city]]
    /\ airport_code = None
    /\ autocomplete_calls = 0
    /\ pc = "call get_airport_code"
    /\ now = [year |-> 2017, month |-> 10, day |-> 31]
    /\ date = None
    /\ formatted = None
    /\ conns = <<>>
    /\ NoSearch

\* Lines 38-73.
GetAirportCode ==
    /\ pc = "call get_airport_code"
    /\ \E r \in {get_airport_code(location, directory)} :
          /\ airport_code' = r.code
          /\ autocomplete_calls' = autocomplete_calls + r.calls
    /\ pc' = "returned"
    /\ UNCHANGED <<words, tagged_words, origin_city, destination_city,
                   departure_date, return_date, origin_text, destination_text,
                   departure_fragment, return_fragment, flexible, output, error,
                   now, directory, date, formatted, location, conns>>

NextAirports == GetAirportCode

SpecAirports == InitAirports /\ [][NextAirports]_vars

(***************************************************************************)
(* nlp/server/server.py: the accept loop and one client_thread per         *)
(* connection.  A payload is what conn.recv returned: eof for the empty    *)
(* read of a peer that has disconnected, else the query the tokenizer and  *)
(* the tagger make of the text.                                            *)
(***************************************************************************)
\* The most connections the accept loop is followed for.
MaxConns == 2

\* The most payloads a peer sends before it disconnects.
MaxPayloads == 2

ServerClock == [year |-> 2017, month |-> 10, day |-> 31]

ServerDirectory ==
    [known |-> { <<"O","c","t">> },
     country |-> [q \in { <<"N","y">> } |-> <<Airport(JFK)>>],
     city |-> NoAnswers]

ServerQueries ==
    { << << <<"n","y">>, "NNP" >>, << <<"t","o">>, "TO" >>,
         << <<"o","c","t">>, "NNP" >>, << <<"2","n","d">>, "CD" >> >>,
      << << <<"f","r","o","m">>, "IN" >> >> }

Payload(q) == [eof |-> FALSE, query |-> q]

EmptyRead == [eof |-> TRUE, query |-> <<>>]

\* Search(data).to_json(): the record serialised, or the exception raised.
SearchToJson(q, dir, clock) ==
    LET ws == [i \in DOMAIN q |-> q[i][1]]
        tagged == clean(ws, [i \in DOMAIN q |-> q[i][2]])
        texts == OriginDestinationTexts(tagged)
        stamps == DateStamps(DateFragments(tagged), clock)
    IN  IF texts.origin = Unbound THEN [error |-> "UnboundLocalError"]
        ELSE IF stamps.error # "none" THEN [error |-> stamps.error]
        ELSE [error |-> "none",
              output |-> [request |-> ws,
                          response |->
                              [origin |-> get_airport_code(texts.origin, dir).code,
                               destination |-> get_airport_code(texts.destination, dir).code,
                               departure |-> stamps.departure,
                               return |-> stamps.return]]]

Welcome == "Welcome to the server. Type something and hit enter\n"

InitServer ==
    /\ conns = <<>>
    /\ pc = "accept"
    /\ now = ServerClock
    /\ directory = ServerDirectory
    /\ date = None
    /\ formatted = None
    /\ location = None
    /\ airport_code = None
    /\ autocomplete_calls = 0
    /\ NoSearch

ServerOnly ==
    UNCHANGED <<words, tagged_words, origin_city, destination_city,
                departure_date, return_date, origin_text, destination_text,
                departure_fragment, return_fragment, flexible, output, error,
                pc, now, directory, date, formatted, location, airport_code,
                autocomplete_calls>>

\* Lines 64-71: a peer connects and its worker thread is started.  peer is
\* what the peer will send before it disconnects.
Accept ==
    /\ pc = "accept"
    /\ Len(conns) < MaxConns
    /\ \E script \in Queries(ServerQueries, MaxPayloads) :
          conns' = Append(conns, [pc |-> "welcome",
                                  peer |-> [i \in DOMAIN script |-> Payload(script[i])],
                                  data |-> None,
                                  reply |-> None,
                                  searched |-> <<>>,
                                  sent |-> <<>>])
    /\ ServerOnly

\* Lines 42-43.
SendWelcome(c) ==
    /\ conns[c].pc = "welcome"
    /\ conns' = [conns EXCEPT ![c].pc = "recv", ![c].sent = Append(@, Welcome)]
    /\ ServerOnly

\* Line 49: the next payload of the peer, or the empty read once the peer
\* has disconnected.
Recv(c) ==
    /\ conns[c].pc = "recv"
    /\ conns' = [conns EXCEPT
                    ![c].pc = "search",
                    ![c].data = IF conns[c].peer = <<>> THEN EmptyRead
                                ELSE Head(conns[c].peer),
                    ![c].peer = IF conns[c].peer = <<>> THEN <<>> ELSE Tail(@)]
    /\ ServerOnly

\* Line 50: an exception of Search ends the thread.
Process(c) ==
    /\ conns[c].pc = "search"
    /\ \E r \in {SearchToJson(conns[c].data.query, directory, now)} :
          conns' = [conns EXCEPT
                       ![c].searched = Append(@, conns[c].data),
                       ![c].pc = IF r.error = "none" THEN "check" ELSE "crashed",
                       ![c].reply = IF r.error = "none" THEN r.output ELSE @]
    /\ ServerOnly

\* Lines 51-56.
Respond(c) ==
    /\ conns[c].pc = "check"
    /\ conns' = IF conns[c].data.eof
                THEN [conns EXCEPT ![c].pc = "closed"]
                ELSE [conns EXCEPT ![c].pc = "recv",
                                   ![c].sent = Append(@, conns[c].reply)]
    /\ ServerOnly

NextServer ==
    \/ Accept
    \/ \E c \in DOMAIN conns :
          SendWelcome(c) \/ Recv(c) \/ Process(c) \/ Respond(c)

SpecServer == InitServer /\ [][NextServer]_vars

(***************************************************************************)
(* The properties.                                                         *)
(***************************************************************************)
IsTree(node) == node.kind = "tree"

\* The spans a grammar matches in a tagged sequence, left to right, each the
\* sequence of its tokens.
Spans(label, rule, toks) ==
    LET trees == SelectSeq(Parse(label, rule, toks), IsTree)
    IN  [i \in DOMAIN trees |-> Leaves(trees[i].children)]

OriginDestinationSpans == Spans("Origin/Destination", OriginDestinationGrams, tagged_words)

DateSpans == Spans("Departure/Return", DepartureReturnGrams, tagged_words)

Last(s) == s[Len(s)]

WordsOf(toks) == [i \in DOMAIN toks |-> Word(toks[i])]

\* The position of the direction marker in an origin/destination span.
MarkerAt(span) == CHOOSE k \in DOMAIN span : Tag(span[k]) = "TO"

\* C1: whenever the origin/destination grammar matches no span of the tagged
\* sequence, get_origin_and_destination ends without an exception, with
\* origin and destination both null.
C1_NoSpanYieldsNulls ==
    (pc # "get_origin_and_destination" /\ OriginDestinationSpans = <<>>)
        => /\ error = "none"
           /\ origin_city = None
           /\ destination_city = None

\* C2: once get_dates has run on a sequence with a Departure/Return span, the
\* fragments were taken from the selected (last) span whatever its length:
\* the departure fragment is leaf 0 + " " + leaf 1, the return fragment is
\* null for fewer than 3 leaves and leaf 3 + " " + leaf 4 otherwise, and a
\* return timestamp is present only with a return fragment.
C2_FragmentsAtFixedPositions ==
    (pc # "call get_dates" /\ DateSpans # <<>>)
        => LET span == Last(DateSpans)
               n == Len(span)
           IN  /\ departure_fragment # Unbound
               /\ n >= 2 => departure_fragment
                                = Word(span[1]) \o <<" ">> \o Word(span[2])
               /\ n < 3 => return_fragment = None
               /\ n >= 5 => return_fragment
                                = Word(span[4]) \o <<" ">> \o Word(span[5])
               /\ return_date # None => return_fragment \notin {None, Unbound}

\* C3: the fragments get_dates took and the texts
\* get_origin_and_destination took are those of the last span of their
\* label, whatever the earlier spans of that label held.
C3_LastSpanWins ==
    /\ departure_fragment # Unbound
          => LET span == Last(DateSpans)
                 n == Len(span)
             IN  /\ n >= 2
                 /\ departure_fragment = Word(span[1]) \o <<" ">> \o Word(span[2])
                 /\ IF n < 3 THEN return_fragment = None
                    ELSE /\ n >= 5
                         /\ return_fragment = Word(span[4]) \o <<" ">> \o Word(span[5])
    /\ origin_text # Unbound
          => LET span == Last(OriginDestinationSpans)
                 k == MarkerAt(span)
             IN  /\ origin_text = JoinEach(WordsOf(SubSeq(span, 1, k - 1)))
                 /\ destination_text = JoinEach(WordsOf(SubSeq(span, k + 1, Len(span))))

\* C3's case: two date spans, the first with a return fragment and the last
\* without one, and get_dates has returned.
C3_Witness ==
    /\ pc = "returned"
    /\ departure_fragment # Unbound
    /\ Len(DateSpans) >= 2
    /\ Len(DateSpans[1]) >= 5
    /\ Len(Last(DateSpans)) = 2
    /\ return_fragment = None

Parses(fragment) == Strptime(format_date(fragment, now).text).ok

\* C4: a departure fragment that does not parse fails the call, and a return
\* fragment that does not parse, after a departure fragment that does,
\* leaves the call successful with return null and the departure set.
C4_OnlyDepartureIsFatal ==
    (pc # "call get_dates" /\ departure_fragment # Unbound)
        => /\ ~Parses(departure_fragment) => error # "none"
           /\ (/\ Parses(departure_fragment)
               /\ return_fragment # None
               /\ ~Parses(return_fragment))
                  => /\ error = "none"
                     /\ return_date = None
                     /\ departure_date # None

\* C5: a worker never hands the empty read of a disconnected peer to Search,
\* it has sent one reply for every query it has read whenever it is about to
\* read or has closed, and after an empty read it ends closed.
C5_SequentialExchange ==
    \A c \in DOMAIN conns :
        /\ \A i \in DOMAIN conns[c].searched : ~conns[c].searched[i].eof
        /\ conns[c].pc \in {"recv", "closed"}
              => Len(conns[c].sent) = 1 + Len(SelectSeq(conns[c].searched,
                                                        LAMBDA d : ~d.eof))
        /\ conns[c].pc = "crashed" => ~conns[c].data.eof

HasRawKeyword == \E i \in DOMAIN words : Lower(words[i]) = Lower(Flexible)

HasNumeralConjunction ==
    \E i \in 1..(Len(tagged_words) - 2) :
        /\ Tag(tagged_words[i]) = "CD"
        /\ Tag(tagged_words[i + 1]) = "CC"
        /\ Tag(tagged_words[i + 2]) = "CD"

\* C6: is_flexible returns true when a token of the raw query is "flexible"
\* in any letter case or when a numeral tag, a conjunction tag and a numeral
\* tag follow one another, and false otherwise.
C6_FlexibleIffKeywordOrConjunction ==
    pc = "returned" => flexible = PyBool(HasRawKeyword \/ HasNumeralConjunction)

\* C6's case: true through the grammar alone.
C6_Witness ==
    /\ pc = "returned"
    /\ flexible = PyBool(TRUE)
    /\ ~HasRawKeyword

\* C7: get_airport_code returns the trimmed text upper-cased, with no
\* autocomplete request, when the exact lookup of the trimmed text is not
\* empty; else it makes one autocomplete request and returns the code of the
\* first country-level airport, else of the first city-level airport, else
\* null.
C7_ResolverOrder ==
    pc = "returned"
        => LET text == Strip(location)
               country == Answer(directory.country, text)
               city == Answer(directory.city, text)
           IN  IF text \in directory.known
               THEN airport_code = Upper(text) /\ autocomplete_calls = 0
               ELSE /\ autocomplete_calls = 1
                    /\ country # <<>> => airport_code = Head(country).code
                    /\ (country = <<>> /\ city # <<>>) => airport_code = Head(city).code
                    /\ (country = <<>> /\ city = <<>>) => airport_code = None

\* C7's case: no exact match, and both a country-level and a city-level list.
C7_Witness ==
    /\ pc = "returned"
    /\ Strip(location) \notin directory.known
    /\ Len(Answer(directory.country, Strip(location))) >= 2
    /\ Len(Answer(directory.city, Strip(location))) >= 1
    /\ location = <<"N","y"," ">>
    /\ airport_code = JFK

\* C8: the origin text holds the words of the matched span before the
\* direction marker and the destination text the words after it, so that
\* origin, marker and destination together are the words of the span.
C8_OriginMarkerDestination ==
    origin_text # Unbound
        => LET span == Last(OriginDestinationSpans)
               k == MarkerAt(span)
           IN  /\ Len(Split(origin_text)) = k - 1
               /\ Split(origin_text) \o <<Word(span[k])>> \o Split(destination_text)
                      = WordsOf(span)

\* C8's case: an origin of two words and a destination.
C8_Witness ==
    /\ pc = "get_dates"
    /\ Len(Split(origin_text)) >= 2
    /\ Len(Split(destination_text)) >= 1

Supplies(IsRole(_)) == {i \in DOMAIN Split(date) : IsRole(Split(date)[i])}

LastOf(S) == CHOOSE i \in S : \A j \in S : j <= i

Suffixes == { <<"s","t">>, <<"n","d">>, <<"r","d">>, <<"t","h">> }

\* One or two digits, then nothing or one ordinal suffix in any letter case.
IsOrdinalNumeral(word) ==
    \E k \in 1..2 :
        /\ k <= Len(word)
        /\ AllIn(SubSeq(word, 1, k), Digits)
        /\ \/ Len(word) = k
           \/ Lower(SubSeq(word, k + 1, Len(word))) \in Suffixes

Numeral(word) == SelectSeq(word, LAMBDA c : c \in Digits)

\* C10: format_date takes a word for the day exactly when it is an ordinal
\* numeral, no word has two roles, and the day it returns for a day word is
\* the word's numeral.
C10_DayIsOrdinalNumeral ==
    pc = "returned"
        => LET ws == Split(date)
               days == Supplies(IsDayWord)
           IN  /\ \A i \in DOMAIN ws :
                      /\ IsDayWord(ws[i]) <=> IsOrdinalNumeral(ws[i])
                      /\ ~(IsMonthWord(ws[i]) /\ IsDayWord(ws[i]))
                      /\ ~(IsMonthWord(ws[i]) /\ IsYearWord(ws[i]))
                      /\ ~(IsDayWord(ws[i]) /\ IsYearWord(ws[i]))
               /\ days # {} => formatted.day = Numeral(ws[LastOf(days)])

ProperNounTags == {"NNP", "NNPS"}

\* C11: every token whose word get_origin_and_destination puts in the origin
\* text or in the destination text carries a proper-noun tag (NNP or NNPS):
\* the words of the origin text are the first tokens of the matched span, the
\* words of the destination text its last tokens, and none of these tokens
\* is a common noun (NN).
C11_TextsAreProperNouns ==
    origin_text # Unbound
        => LET span == Last(OriginDestinationSpans)
               o == Split(origin_text)
               d == Split(destination_text)
               at(j) == span[Len(span) - Len(d) + j]
           IN  /\ \A i \in DOMAIN o :
                      Word(span[i]) = o[i] /\ Tag(span[i]) \in ProperNounTags
               /\ \A j \in DOMAIN d :
                      Word(at(j)) = d[j] /\ Tag(at(j)) \in ProperNounTags

====
